---- MODULE Spec2Model ----
(***************************************************************************)
(* Model of the ellipsis-macros crate (src/src/lib.rs): the declare_id and *)
(* declare_pda procedural macros.                                          *)
(*                                                                         *)
(* A string literal is a sequence of one-character strings, a byte string  *)
(* a sequence of integers in 0..255.  A macro expansion is one step: the   *)
(* variable `call` records the macro and its literal arguments, `result`   *)
(* what the expansion produced (the emitted constants, a syn::Error with   *)
(* the literal it is spanned on, or a panic).                              *)
(*                                                                         *)
(* The crate calls three functions whose bodies live in its dependencies   *)
(* (bs58::decode, Pubkey::from_str, Pubkey::find_program_address).  They   *)
(* are modelled from the specification's description of them, and the      *)
(* SHA-256 / Ed25519 pair is an abstract digest with an arbitrary curve    *)
(* set fixed in the initial state.                                         *)
(***************************************************************************)
EXTENDS Integers, Sequences, FiniteSets, TLC

VARIABLES curve, call, derived, result

vars == <<curve, call, derived, result>>

-----------------------------------------------------------------------------
(* Bounds of the model *)

\* literals carry up to MaxPad characters more than a 32-byte key needs
MaxPad == 1

\* the seeds are the prefixes of "test" up to this length
MaxSeedLen == 2

\* the number of lengths of on-curve runs the curve oracle is drawn from
MaxRunShort == 2

-----------------------------------------------------------------------------
(* Base58 *)

\* size of a Pubkey: <[u8; 32]>::try_from
PUBKEY_BYTES == 32

\* the Bitcoin alphabet bs58 uses by default; it has no "0", "O", "I", "l"
ALPHABET ==
    << "1", "2", "3", "4", "5", "6", "7", "8", "9",
       "A", "B", "C", "D", "E", "F", "G", "H", "J", "K", "L", "M", "N",
       "P", "Q", "R", "S", "T", "U", "V", "W", "X", "Y", "Z",
       "a", "b", "c", "d", "e", "f", "g", "h", "i", "j", "k", "m", "n",
       "o", "p", "q", "r", "s", "t", "u", "v", "w", "x", "y", "z" >>

IsBase58Char(c) == \E i \in 1..Len(ALPHABET) : ALPHABET[i] = c

\* the digit value of a character of the alphabet, 0..57
DigitOf(c) == (CHOOSE i \in 1..Len(ALPHABET) : ALPHABET[i] = c) - 1

RECURSIVE Repeat(_, _)
Repeat(x, n) ==
    IF n = 0 THEN <<>>
    ELSE IF n = 1 THEN <<x>>
    ELSE Repeat(x, n \div 2) \o Repeat(x, n - n \div 2)

Zeros(n) == Repeat(0, n)

RECURSIVE ReverseRange(_, _, _)
ReverseRange(s, lo, hi) ==
    IF lo > hi THEN <<>>
    ELSE IF lo = hi THEN <<s[lo]>>
    ELSE LET mid == (lo + hi) \div 2
         IN  ReverseRange(s, mid + 1, hi) \o ReverseRange(s, lo, mid)

Reverse(s) == ReverseRange(s, 1, Len(s))

\* the number of leading elements of s equal to x
Leading(s, x) ==
    Cardinality({ n \in 1..Len(s) : \A j \in 1..n : s[j] = x })

\* while val > 0 { push val & 0xFF; val >>= 8 }
RECURSIVE PushCarry(_, _)
PushCarry(out, val) ==
    IF val = 0 THEN out
    ELSE PushCarry(Append(out, val % 256), val \div 256)

\* A loop over a range is evaluated by halves, the first half before the
\* second is entered: the steps run in the order of the loop and the
\* evaluation stays shallow.

\* val += byte * 58; byte = val & 0xFF; val >>= 8, on byte i of the buffer
MulAddByte(st, i) ==
    LET v == st.val + st.out[i] * 58
    IN  [out |-> [st.out EXCEPT ![i] = v % 256], val |-> v \div 256]

\* the bytes lo..hi of the buffer in turn (the carry stays below 58)
RECURSIVE MulAddRange(_, _, _)
MulAddRange(st, lo, hi) ==
    IF lo > hi THEN st
    ELSE IF lo = hi THEN MulAddByte(st, lo)
    ELSE LET mid == (lo + hi) \div 2
             first == MulAddRange(st, lo, mid)
         IN  IF first.val < 58 THEN MulAddRange(first, mid + 1, hi)
             ELSE first

\* out := out * 58 + the digit of c, on a little-endian byte buffer
DecodeChar(out, c) ==
    LET st == MulAddRange([out |-> out, val |-> DigitOf(c)], 1, Len(out))
    IN  PushCarry(st.out, st.val)

\* the characters lo..hi of s in turn (the buffer, one byte per character
\* of s, is never outgrown)
RECURSIVE DecodeDigits(_, _, _, _)
DecodeDigits(s, lo, hi, out) ==
    IF lo > hi THEN out
    ELSE IF lo = hi THEN DecodeChar(out, s[lo])
    ELSE LET mid == (lo + hi) \div 2
             first == DecodeDigits(s, lo, mid, out)
         IN  IF Len(first) <= Len(s) THEN DecodeDigits(s, mid + 1, hi, first)
             ELSE first

\* bs58::decode(s).into_vec(): an error on a character outside the alphabet,
\* otherwise the big-endian bytes of the number, one zero byte per leading "1"
bs58_decode(s) ==
    IF \E i \in 1..Len(s) : ~IsBase58Char(s[i])
    THEN [ok |-> FALSE, bytes |-> <<>>]
    ELSE [ok |-> TRUE,
          bytes |-> Reverse(DecodeDigits(s, 1, Len(s), <<>>)
                            \o Zeros(Leading(s, ALPHABET[1])))]

\* the literal a correct declaration is written from: base58 of a byte string
RECURSIVE EncodeCarry(_, _)
EncodeCarry(digits, carry) ==
    IF carry = 0 THEN digits
    ELSE EncodeCarry(Append(digits, carry % 58), carry \div 58)

\* carry += digit << 8; digit = carry % 58; carry /= 58, on digit i
EncodeDigit(st, i) ==
    LET v == st.val + st.out[i] * 256
    IN  [out |-> [st.out EXCEPT ![i] = v % 58], val |-> v \div 58]

RECURSIVE EncodeDigitRange(_, _, _)
EncodeDigitRange(st, lo, hi) ==
    IF lo > hi THEN st
    ELSE IF lo = hi THEN EncodeDigit(st, lo)
    ELSE LET mid == (lo + hi) \div 2
             first == EncodeDigitRange(st, lo, mid)
         IN  IF first.val < 256 THEN EncodeDigitRange(first, mid + 1, hi)
             ELSE first

EncodeByte(digits, byte) ==
    LET st == EncodeDigitRange([out |-> digits, val |-> byte], 1, Len(digits))
    IN  EncodeCarry(st.out, st.val)

RECURSIVE EncodeBytes(_, _, _, _)
EncodeBytes(b, lo, hi, digits) ==
    IF lo > hi THEN digits
    ELSE IF lo = hi THEN EncodeByte(digits, b[lo])
    ELSE LET mid == (lo + hi) \div 2
             first == EncodeBytes(b, lo, mid, digits)
         IN  IF Len(first) <= 2 * Len(b) THEN EncodeBytes(b, mid + 1, hi, first)
             ELSE first

\* the characters of little-endian digits, most significant first
RECURSIVE CharsOf(_, _, _)
CharsOf(digits, lo, hi) ==
    IF lo > hi THEN <<>>
    ELSE IF lo = hi THEN <<ALPHABET[digits[lo] + 1]>>
    ELSE LET mid == (lo + hi) \div 2
         IN  CharsOf(digits, mid + 1, hi) \o CharsOf(digits, lo, mid)

bs58_encode(b) ==
    LET digits == EncodeBytes(b, 1, Len(b), <<>>) \o Zeros(Leading(b, 0))
    IN  CharsOf(digits, 1, Len(digits))

-----------------------------------------------------------------------------
(* What an expansion produces *)

MSG_DECODE == "failed to decode base58 string"
MSG_LENGTH == "pubkey array is not 32 bytes long: len="
MSG_MISMATCH == "provided PDA does not match the computed PDA"
MSG_TOKEN == "unexpected token"

\* no length in the message, no bump constant
NONE == 0 - 1

\* the tokens of ::solana_program::pubkey::Pubkey::new_from_array([bytes]),
\* with the tokens of the bump literal when there is one
Ok(id, bump) ==
    [kind |-> "ok", id |-> id, bump |-> bump,
     span |-> "", msg |-> "", len |-> NONE]

\* syn::Error::new_spanned(span, msg), msg ending in len when len # NONE
Err(span, msg, len) ==
    [kind |-> "err", id |-> <<>>, bump |-> NONE,
     span |-> span, msg |-> msg, len |-> len]

Panic ==
    [kind |-> "panic", id |-> <<>>, bump |-> NONE,
     span |-> "", msg |-> "", len |-> NONE]

Idle ==
    [kind |-> "idle", id |-> <<>>, bump |-> NONE,
     span |-> "", msg |-> "", len |-> NONE]

-----------------------------------------------------------------------------
(* parse_pubkey: the decode-only path *)

\* a literal is [name |-> which argument it is, text |-> its characters]

\* parse_pubkey with the first 32 bytes taken of a longer byte string
parse_pubkey_truncating(id_literal) ==
    LET id_vec == bs58_decode(id_literal.text)
    IN  IF ~id_vec.ok
        THEN Err(id_literal.name, MSG_DECODE, NONE)
        ELSE IF Len(id_vec.bytes) < PUBKEY_BYTES
        THEN Err(id_literal.name, MSG_LENGTH, Len(id_vec.bytes))
        ELSE Ok(SubSeq(id_vec.bytes, 1, PUBKEY_BYTES), NONE)

\* parse_pubkey with a failed decode taken for an empty byte string
parse_pubkey_defaulting(id_literal) ==
    LET id_vec == bs58_decode(id_literal.text)
    IN  IF Len(id_vec.bytes) # PUBKEY_BYTES
        THEN Err(id_literal.name, MSG_LENGTH, Len(id_vec.bytes))
        ELSE Ok(id_vec.bytes, NONE)

\* parse_pubkey with a shorter byte string padded to 32 bytes
parse_pubkey_padding(id_literal) ==
    LET id_vec == bs58_decode(id_literal.text)
    IN  IF ~id_vec.ok
        THEN Err(id_literal.name, MSG_DECODE, NONE)
        ELSE IF Len(id_vec.bytes) > PUBKEY_BYTES
        THEN Err(id_literal.name, MSG_LENGTH, Len(id_vec.bytes))
        ELSE Ok(Zeros(PUBKEY_BYTES - Len(id_vec.bytes)) \o id_vec.bytes, NONE)

parse_pubkey(id_literal) ==
    LET id_vec == bs58_decode(id_literal.text)
    IN  IF ~id_vec.ok
        THEN Err(id_literal.name, MSG_DECODE, NONE)
        ELSE IF Len(id_vec.bytes) # PUBKEY_BYTES
        THEN Err(id_literal.name, MSG_LENGTH, Len(id_vec.bytes))
        ELSE Ok(id_vec.bytes, NONE)

-----------------------------------------------------------------------------
(* Pubkey::from_str and Pubkey::find_program_address *)

\* the longest base58 text of 32 bytes
MAX_BASE58_LEN == 44

\* Pubkey::from_str: guards the length of the text, decodes it and takes
\* exactly 32 bytes; the caller sees only that it failed
from_str(s) ==
    IF Len(s) > MAX_BASE58_LEN
    THEN [ok |-> FALSE, key |-> <<>>]
    ELSE LET pubkey_vec == bs58_decode(s)
         IN  IF ~pubkey_vec.ok \/ Len(pubkey_vec.bytes) # PUBKEY_BYTES
             THEN [ok |-> FALSE, key |-> <<>>]
             ELSE [ok |-> TRUE, key |-> pubkey_vec.bytes]

\* "ProgramDerivedAddress"
PDA_MARKER ==
    << 80, 114, 111, 103, 114, 97, 109, 68, 101, 114, 105, 118, 101, 100,
       65, 100, 100, 114, 101, 115, 115 >>

RECURSIVE WeightedSum(_, _, _)
WeightedSum(bytes, lo, hi) ==
    IF lo > hi THEN 0
    ELSE IF lo = hi THEN (lo * bytes[lo]) % 256
    ELSE LET mid == (lo + hi) \div 2
         IN  (WeightedSum(bytes, lo, mid) + WeightedSum(bytes, mid + 1, hi)) % 256

RECURSIVE ByteSum(_, _, _)
ByteSum(bytes, lo, hi) ==
    IF lo > hi THEN 0
    ELSE IF lo = hi THEN bytes[lo]
    ELSE LET mid == (lo + hi) \div 2
         IN  (ByteSum(bytes, lo, mid) + ByteSum(bytes, mid + 1, hi)) % 256

\* the digest of a byte string: 32 bytes that depend on every byte of the
\* input and on the order of its parts (an abstraction of SHA-256)
hashv(bytes) ==
    Zeros(PUBKEY_BYTES - 2)
    \o <<WeightedSum(bytes, 1, Len(bytes)), ByteSum(bytes, 1, Len(bytes))>>

\* the curve-membership test: the points on the curve are the set the
\* initial state fixed, a run of curve.run values of the last byte from
\* curve.start on
bytes_are_curve_point(key) ==
    (key[PUBKEY_BYTES] + 256 - curve.start) % 256 < curve.run

\* the hash input of one candidate: seed, bump, program identity, marker
HashInput(seed, bump, program_id) ==
    seed \o <<bump>> \o program_id \o PDA_MARKER

\* the candidate of one bump, rejected when it is a point of the curve
create_program_address(seed, bump, program_id) ==
    LET hash == hashv(HashInput(seed, bump, program_id))
    IN  [ok |-> ~bytes_are_curve_point(hash), key |-> hash]

\* the search was not reached, or found no candidate off the curve
NotRun == [found |-> FALSE, key |-> <<>>, bump |-> NONE]

\* the iterations of the search loop for the bumps from `high` down to `low`,
\* highest bump first, up to the first candidate that is off the curve
RECURSIVE SearchRange(_, _, _, _)
SearchRange(seed, program_id, high, low) ==
    IF high < low THEN NotRun
    ELSE IF high = low
    THEN LET address == create_program_address(seed, high, program_id)
         IN  IF address.ok
             THEN [found |-> TRUE, key |-> address.key, bump |-> high]
             ELSE NotRun
    ELSE LET mid == (high + low) \div 2
             upper == SearchRange(seed, program_id, high, mid + 1)
         IN  IF upper.found THEN upper
             ELSE SearchRange(seed, program_id, mid, low)

\* the search: bump 255 first, then downward to 0
try_find_program_address(seed, program_id) ==
    SearchRange(seed, program_id, 255, 0)

-----------------------------------------------------------------------------
(* parse_pda: the validate-derivation path *)

\* seed.value().as_ref(): the UTF-8 bytes of the seed literal's characters
Utf8Byte(c) ==
    CASE c = "t" -> 116
      [] c = "e" -> 101
      [] c = "s" -> 115

RECURSIVE Utf8Range(_, _, _)
Utf8Range(text, lo, hi) ==
    IF lo > hi THEN <<>>
    ELSE IF lo = hi THEN <<Utf8Byte(text[lo])>>
    ELSE LET mid == (lo + hi) \div 2
         IN  Utf8Range(text, lo, mid) \o Utf8Range(text, mid + 1, hi)

as_ref(text) == Utf8Range(text, 1, Len(text))

\* the seeds handed to the search with none of the seed literal's bytes
seeds_of_nothing(seed) == <<>>

\* &[&seed.value().as_ref()]: the one seed of the search
seeds_of(seed) == as_ref(seed.text)

\* the comparison inverted
pda_differs_inverted(pda_key, computed_key) == pda_key = computed_key

\* pda_key != computed_key
pda_differs(pda_key, computed_key) == pda_key # computed_key

\* the bump literal of the first candidate whatever the search found
bump_literal_of_first(bump_seed) == 255

\* LitByte::new(bump_seed, ..): the tokens of the bump constant
bump_literal(bump_seed) == bump_seed

\* find_program_address hands back a bare (key, bump) pair, which parse_pda
\* destructures: when the search finds nothing there is no pair and no error
\* value, the expansion panics.  `out` is what parse_pda returns, `ran` tells
\* whether the search was reached and `found` is (computed_key, bump_seed).
parse_pda(id_literal, program_id, seed) ==
    LET pda_key == from_str(id_literal.text)
        program_key == from_str(program_id.text)
    IN  IF ~pda_key.ok
        THEN [out |-> Err(id_literal.name, MSG_DECODE, NONE),
              ran |-> FALSE, found |-> NotRun]
        ELSE IF ~program_key.ok
        THEN [out |-> Err(id_literal.name, MSG_DECODE, NONE),
              ran |-> FALSE, found |-> NotRun]
        ELSE LET found == try_find_program_address(seeds_of(seed),
                                                   program_key.key)
             IN  IF ~found.found
                 THEN [out |-> Panic, ran |-> TRUE, found |-> found]
                 ELSE IF pda_differs(pda_key.key, found.key)
                 THEN [out |-> Err(id_literal.name, MSG_MISMATCH, NONE),
                       ran |-> TRUE, found |-> found]
                 ELSE LET pda_token_stream == parse_pubkey(id_literal)
                      IN  IF pda_token_stream.kind # "ok"
                          THEN [out |-> pda_token_stream,
                                ran |-> TRUE, found |-> found]
                          ELSE [out |-> Ok(pda_token_stream.id,
                                           bump_literal(found.bump)),
                                ran |-> TRUE, found |-> found]

\* parse_id on a string literal or on any other expression, which is spliced
\* as it is (no bytes are known for it)
parse_id(token, trailing) ==
    LET id == IF token.name = "id_literal" THEN parse_pubkey(token)
              ELSE Ok(<<>>, NONE)
    IN  IF id.kind # "ok" THEN id
        ELSE IF trailing THEN Err("trailing", MSG_TOKEN, NONE)
        ELSE id

\* ProgramPdaArgs::parse: three literals, nothing after them, then parse_pda
ProgramPdaArgs_parse(pda_address, program_id, seed, trailing) ==
    IF trailing
    THEN [out |-> Err("trailing", MSG_TOKEN, NONE),
          ran |-> FALSE, found |-> NotRun]
    ELSE parse_pda(pda_address, program_id, seed)

-----------------------------------------------------------------------------
(* The literals the macros are expanded on *)

Ones(n) == Repeat(ALPHABET[1], n)

Literal(name, text) == [name |-> name, text |-> text]

\* texts of 32-byte keys: the all-zero key, a key with one non-zero byte and
\* a key whose text has the greatest length a 32-byte key can have
KeyTexts ==
    { Ones(PUBKEY_BYTES),
      Ones(PUBKEY_BYTES - 1) \o <<"2">>,
      <<"2">> \o Ones(MAX_BASE58_LEN - 1) }

\* base58 texts of byte strings that are not 32 bytes long
WrongLengthTexts ==
    { <<>>, Ones(1), <<"z", "z">>, Ones(PUBKEY_BYTES - 1) }
    \cup { Ones(PUBKEY_BYTES + j) : j \in 1..MaxPad }
    \cup { Ones(MAX_BASE58_LEN + j) : j \in 0..MaxPad }
    \cup { <<"2">> \o Ones(MAX_BASE58_LEN - 1 + j) : j \in 1..MaxPad }
    \cup { Ones(PUBKEY_BYTES - 1 + j) \o <<"z", "z">> : j \in 0..MaxPad }

\* texts with a character outside the alphabet
InvalidTexts ==
    { <<"O">>, <<"0">>, <<"l", "1">>,
      Ones(PUBKEY_BYTES - 1) \o <<"I">>,
      <<"O">> \o Ones(PUBKEY_BYTES),
      Ones(PUBKEY_BYTES) \o <<"l">>,
      Ones(MAX_BASE58_LEN) \o <<"0">> }

Texts == KeyTexts \cup WrongLengthTexts \cup InvalidTexts

\* the malformed texts declare_pda is expanded on
PdaMalformedTexts ==
    { Ones(1), <<"O">>, Ones(PUBKEY_BYTES) \o <<"l">>,
      Ones(PUBKEY_BYTES + MaxPad), <<"2">> \o Ones(MAX_BASE58_LEN - 1 + MaxPad) }

ProgramTexts ==
    { Ones(PUBKEY_BYTES), <<"2">> \o Ones(MAX_BASE58_LEN - 1) }

ProgramKeys == { bs58_decode(t).bytes : t \in ProgramTexts }

SeedText == <<"t", "e", "s", "t">>

SeedTexts == { SubSeq(SeedText, 1, n) : n \in 0..MaxSeedLen }

\* the addresses a declaration may claim: the candidates of the highest
\* and of the lowest bumps under either program, and the first of them
\* with one byte altered
ClaimBumps == { 255, 254, 0 }

Candidates(seed) ==
    { hashv(HashInput(as_ref(seed), b, k)) : b \in ClaimBumps,
                                             k \in ProgramKeys }

Altered(seed) ==
    { [k EXCEPT ![1] = 1] :
        k \in { hashv(HashInput(as_ref(seed), 255, Zeros(PUBKEY_BYTES))) } }

ClaimedTexts(seed) ==
    { bs58_encode(k) : k \in Candidates(seed) \cup Altered(seed) }

\* the last byte of the candidate of a seed and a bump under the all-zero
\* program identity
LastByte(seed, bump) ==
    hashv(HashInput(as_ref(seed), bump, Zeros(PUBKEY_BYTES)))[PUBKEY_BYTES]

\* the curve sets: a short run of on-curve last bytes that starts at the
\* candidate of bump 255 or 254 of the empty seed (the search then stops
\* within a few bumps), the run of all bytes but that of bump 0 of the empty
\* seed (only one bump is off the curve: bump 0 for the empty seed, another
\* for each other seed), and the run of every byte (no candidate is off the
\* curve)
Curves ==
    { [start |-> LastByte(<<>>, b), run |-> n] :
        b \in { 255, 254 }, n \in 0..MaxRunShort }
    \cup { [start |-> LastByte(<<>>, 1), run |-> n] : n \in { 255, 256 } }

-----------------------------------------------------------------------------
(* The expansions *)

NoCall ==
    [macro |-> "none", id |-> Literal("none", <<>>),
     program |-> Literal("none", <<>>), seed |-> Literal("none", <<>>),
     trailing |-> FALSE]

Init ==
    /\ curve \in Curves
    /\ call = NoCall
    /\ derived = [ran |-> FALSE, found |-> NotRun]
    /\ result = Idle

\* declare_id!(token ...): Id::parse, which is parse_id
DeclareId ==
    /\ call.macro = "none"
    /\ \E token \in { Literal("id_literal", t) : t \in Texts }
                    \cup { Literal("expr", <<>>) },
          trailing \in BOOLEAN :
          /\ call' = [NoCall EXCEPT !.macro = "declare_id", !.id = token,
                                    !.trailing = trailing]
          /\ result' = parse_id(token, trailing)
    /\ UNCHANGED <<curve, derived>>

\* declare_pda!(pda_address, program_id, seed ...): ProgramPdaArgs::parse
DeclarePda ==
    /\ call.macro = "none"
    /\ \E seed \in SeedTexts, trailing \in BOOLEAN :
       \E id \in IF trailing THEN { Ones(PUBKEY_BYTES) }
                 ELSE ClaimedTexts(seed) \cup PdaMalformedTexts,
          program \in IF trailing THEN { Ones(PUBKEY_BYTES) }
                      ELSE ProgramTexts \cup PdaMalformedTexts :
          LET pda_address == Literal("id_literal", id)
              program_id == Literal("program_id", program)
              seed_literal == Literal("seed", seed)
          IN  \E parsed \in { ProgramPdaArgs_parse(pda_address, program_id,
                                                   seed_literal, trailing) } :
                 /\ call' = [macro |-> "declare_pda", id |-> pda_address,
                             program |-> program_id, seed |-> seed_literal,
                             trailing |-> trailing]
                 /\ derived' = [ran |-> parsed.ran, found |-> parsed.found]
                 /\ result' = parsed.out
    /\ UNCHANGED curve

Next == DeclareId \/ DeclarePda

Spec == Init /\ [][Next]_vars

-----------------------------------------------------------------------------
(* Properties *)

\* parse_pda was entered
InPda == call.macro = "declare_pda" /\ ~call.trailing

\* parse_pubkey was entered from declare_id
InId == call.macro = "declare_id" /\ call.id.name = "id_literal"

HasInvalidChar(text) == \E i \in 1..Len(text) : ~IsBase58Char(text[i])

\* the bytes of the claimed address literal and of the program literal
ClaimedBytes == bs58_decode(call.id.text).bytes
ProgramBytes == bs58_decode(call.program.text).bytes

\* C2: when the search of parse_pda succeeds with (address, bump), the address
\* is the digest of seed ++ [bump] ++ program_id ++ suffix, it is off the
\* curve, and the digest of every higher bump is on the curve.
C2_HighestOffCurveBump ==
    (InPda /\ derived.ran /\ derived.found.found) =>
        LET seed == as_ref(call.seed.text)
            program == ProgramBytes
        IN  /\ derived.found.bump \in 0..255
            /\ derived.found.key =
                  hashv(seed \o <<derived.found.bump>> \o program \o PDA_MARKER)
            /\ ~bytes_are_curve_point(derived.found.key)
            /\ \A b \in (derived.found.bump + 1)..255 :
                  bytes_are_curve_point(
                      hashv(seed \o <<b>> \o program \o PDA_MARKER))

\* a search that rejected higher bumps of a non-empty seed before it succeeded
C2_Witness ==
    /\ InPda /\ derived.ran /\ derived.found.found
    /\ derived.found.bump < 255
    /\ call.seed.text # <<>>

\* C3 (as claimed): when no candidate is off the curve, parse_pda returns a
\* DerivationExhausted error value; it does not panic.
C3_ExhaustionIsAnError ==
    (InPda /\ derived.ran /\ ~derived.found.found) =>
        /\ result.kind = "err"
        /\ result.msg = "DerivationExhausted"

\* C4: when the bytes of the claimed address literal differ from the computed
\* address, parse_pda fails with the mismatch error and emits no constant;
\* it succeeds only when the two 32-byte values are equal.
C4_MismatchDetected ==
    InPda =>
        /\ (derived.found.found /\ ClaimedBytes # derived.found.key) =>
              result = Err("id_literal", MSG_MISMATCH, NONE)
        /\ result.kind = "ok" =>
              /\ derived.found.found
              /\ Len(ClaimedBytes) = PUBKEY_BYTES
              /\ ClaimedBytes = derived.found.key

\* a mismatch error for a claimed address one byte off the computed one
C4_Witness ==
    /\ InPda /\ derived.found.found
    /\ result.msg = MSG_MISMATCH
    /\ Len(ClaimedBytes) = PUBKEY_BYTES
    /\ Cardinality({ i \in 1..PUBKEY_BYTES :
                       ClaimedBytes[i] # derived.found.key[i] }) = 1

\* C5: on success parse_pda emits the 32 bytes decoded from the claimed
\* address literal, which equal the recomputed address, and the recomputed
\* bump as the bump constant.
C5_EmitsClaimedBytesAndBump ==
    (InPda /\ result.kind = "ok") =>
        /\ Len(result.id) = PUBKEY_BYTES
        /\ result.id = ClaimedBytes
        /\ result.id = derived.found.key
        /\ result.bump = derived.found.bump

\* a successful validation whose bump is not the first candidate's
C5_Witness ==
    /\ InPda /\ result.kind = "ok"
    /\ result.bump < 255

\* C6: a literal of base58 characters that decodes to n # 32 bytes makes
\* parse_pubkey fail with the length error reporting n (1 for "1", 33 for
\* thirty-three "1"s); no key is produced.
C6_WrongLengthReported ==
    (InId /\ ~HasInvalidChar(call.id.text)
          /\ Len(ClaimedBytes) # PUBKEY_BYTES) =>
        /\ result = Err("id_literal", MSG_LENGTH, Len(ClaimedBytes))
        /\ \A n \in 0..(MAX_BASE58_LEN + MaxPad) :
              call.id.text = Ones(n) => result.len = n

\* the literal "1", reported with length 1
C6_Witness ==
    /\ InId /\ call.id.text = <<"1">>
    /\ result.kind = "err" /\ result.msg = MSG_LENGTH /\ result.len = 1

\* C7: a literal with a character outside the base58 alphabet makes
\* parse_pubkey fail with the decode error, whatever its length.
C7_InvalidCharRejected ==
    (InId /\ HasInvalidChar(call.id.text)) =>
        result = Err("id_literal", MSG_DECODE, NONE)

\* thirty-two "1"s and an "l": without the "l" the literal is a key
C7_Witness ==
    /\ InId /\ call.id.text = Ones(PUBKEY_BYTES) \o <<"l">>
    /\ result.kind = "err" /\ result.msg = MSG_DECODE

\* C8 (as claimed): parse_pda fails on a malformed claimed-address or
\* program literal with the error parse_pubkey gives for that literal, the
\* length error with the decoded length included.
C8_DecoderErrorsPropagated ==
    InPda =>
        LET pda == parse_pubkey(call.id)
            program == parse_pubkey(call.program)
        IN  /\ pda.kind = "err" =>
                  /\ result.kind = "err"
                  /\ result.msg = pda.msg /\ result.len = pda.len
            /\ (pda.kind = "ok" /\ program.kind = "err") =>
                  /\ result.kind = "err"
                  /\ result.msg = program.msg /\ result.len = program.len

\* C9 (as claimed): an error of parse_pda is spanned on the literal at
\* fault: the claimed-address literal when it fails to decode or does not
\* match, the program literal when that one fails to decode.
C9_ErrorNamesOffendingLiteral ==
    (InPda /\ result.kind = "err") =>
        IF parse_pubkey(call.id).kind = "err" THEN result.span = "id_literal"
        ELSE IF parse_pubkey(call.program).kind = "err"
        THEN result.span = "program_id"
        ELSE result.span = "id_literal"

\* C10: Pubkey::from_str accepts a literal exactly when parse_pubkey does,
\* with the same 32 bytes; so the parse_pubkey call that ends parse_pda,
\* reached after from_str accepted the literal and the keys matched, cannot
\* fail and yields pda_key.
C10_DecodersAgree ==
    /\ \A lit \in { call.id, call.program } :
          lit.name \in { "id_literal", "program_id" } =>
              LET key == from_str(lit.text)
                  tokens == parse_pubkey(lit)
              IN  /\ key.ok <=> tokens.kind = "ok"
                  /\ key.ok => key.key = tokens.id
    /\ (InPda /\ derived.found.found
              /\ from_str(call.id.text).key = derived.found.key) =>
          /\ result.kind = "ok"
          /\ result.id = from_str(call.id.text).key

\* parse_pda reached its last parse_pubkey call
C10_Witness ==
    /\ InPda /\ derived.found.found
    /\ from_str(call.id.text).ok
    /\ from_str(call.id.text).key = derived.found.key
    /\ result.kind = "ok"

====
